---- MODULE Spec2Model ----
(***************************************************************************)
(* The AI visual-regression judge of ai-screenshot-testing: the three      *)
(* judge-analysis functions (before/after pair, frame sequence, video),    *)
(* the Playwright scenario that captures evidence, calls the judge and     *)
(* asserts on the Verdict, the retry loop around it, and the metrics       *)
(* runner that repeats a spec file out of process.                         *)
(*                                                                         *)
(* Certainties and thresholds are in hundredths (0.85 is 85).  A JS value  *)
(* is a tagged record; a JS string is the sequence of its pieces, so that  *)
(* concatenation is \o and "contains" is membership of a piece.            *)
(***************************************************************************)
EXTENDS Integers, Sequences, FiniteSets, TLC

VARIABLES
    kind,           \* evidence kind of the scenario: "pair", "frames", "video"
    credential,     \* GEMINI_API_KEY as read at module load
    projectRetries, \* retries the project configuration gives a suite that sets none
                    \* (read by the pair suite only)
    attempt,        \* number of the running attempt, from 1
    pc,             \* position of the running attempt in the test body
    captureState,   \* "none", "inProgress", "done": evidence capture of this attempt
    evidence,       \* evidence captured so far in this attempt
    request,        \* the judge request built by the analysis function, or NoRequest
    call,           \* "none", "inFlight", "returned", "threw": model.generateContent;
                    \* "abandoned": still pending when the attempt was ended
    response,       \* what generateContent gave back, or NoResponse
    result,         \* what the analysis function gave its caller, or NoResult
    decision,       \* "none", "PASS", "FAIL": the outcome of this attempt's assertions
    history,        \* the finished attempts, oldest first
    netCalls,       \* generateContent invocations so far, over all attempts
    outcome         \* "none", "PASS", "FAIL": the scenario's final outcome

judgeVars == <<kind, credential, projectRetries, attempt, pc, captureState, evidence,
               request, call, response, result, decision, history, netCalls, outcome>>

VARIABLES
    rpc,            \* position of the metrics runner script
    specArg,        \* --spec: TRUE when a spec file was given
    runs,           \* --runs
    abortOn,        \* --abortOnFails (0: disabled)
    i,              \* loop index of the run loop
    childRunning,   \* TRUE while the spawned playwright process runs
    passRuns,       \* results.passRuns
    failRuns,       \* results.failRuns
    durationsMs,    \* results.durationsMs
    failures,       \* results.failures
    aborted,        \* TRUE once the abort threshold has broken the loop
    report,         \* the persisted report file, or NoReport
    reportWrites,   \* number of times the report file was written
    exitCode,       \* process exit code once rpc = "exited"
    spawned,        \* the spawned playwright processes that have not terminated yet,
                    \* each with the arguments it was started with
    proc,           \* what spawnSync returned for the latest run, or NoProc
    success         \* `success` of the latest run

runnerVars == <<rpc, specArg, runs, abortOn, i, childRunning, passRuns, failRuns,
                durationsMs, failures, aborted, report, reportWrites, exitCode,
                spawned, proc, success>>

VARIABLES
    ppc,            \* position of the context builder: "test", "analyze", "note", "built"
    fn,             \* the analysis function the test calls: "pair", "frames", "video"
    contract,       \* the test contract the test body words: its Expectation, Warnings
                    \* and Notes texts
    testContext,    \* the testContext string handed to the analysis function, or Undef
    movementAwareNote, \* the constant of that name, or Undef where none is computed
    prompt          \* the prompt string of the request, or Undef

promptVars == <<ppc, fn, contract, testContext, movementAwareNote, prompt>>

VARIABLES
    effect,         \* the effect of useEffect(..., []): "new" before it ever ran, "up"
                    \* when its setup ran last, "down" when its cleanup ran last
    hasInitialized, \* hasInitialized.current
    setups,         \* how often the setup ran
    builds,         \* how often a setup built the world
    hasCleanup,     \* whether the latest setup returned a cleanup function
    sceneRef,       \* sceneRef.current is a scene
    canvasAttached, \* renderer.domElement is a child of the mount element
    keydownListeners, \* handleKeyDown listeners registered on window
    keyupListeners, \* handleKeyUp listeners registered on window
    animating,      \* the requestAnimationFrame loop runs
    animateRandomness, \* the `randomness` the closure of animate captured
    open,           \* the drawer state
    randomness,     \* the randomness state
    box,            \* rectangle.line.position (MainBox)
    yaw,            \* rectangle.line.rotation.y
    camera,         \* camera.position
    target,         \* controls.target
    originalView,   \* originalViewRef.current
    keyDownMap,     \* the keys whose keyDownMap entry is true
    pressed,        \* the keys the user holds down
    presses,        \* per key, how often the user pressed it
    fired,          \* per key, how often moveOnce ran for it
    clouds,         \* every noise point cloud ever created
    noiseCtx,       \* noiseCtxRef.current: the index of its cloud, 0 for none
    events          \* key presses, switch clicks and animation frames so far

appVars == <<effect, hasInitialized, setups, builds, hasCleanup, sceneRef, canvasAttached,
             keydownListeners, keyupListeners, animating, animateRandomness, open,
             randomness, box, yaw, camera, target, originalView, keyDownMap, pressed,
             presses, fired, clouds, noiseCtx, events>>

vars == <<judgeVars, runnerVars, promptVars, appVars>>

----------------------------------------------------------------------------
(* JS values *)

Undef == [t |-> "undefined"]
Null == [t |-> "null"]
JNum(n) == [t |-> "number", n |-> n]
JStr(s) == [t |-> "string", s |-> s]
Str(piece) == JStr(<<piece>>)
EmptyStr == JStr(<<>>)

\* a + b on strings, and `${a}${b}`
Concat(a, b) == JStr(a.s \o b.s)

\* s.includes(piece)
Contains(v, piece) == v.t = "string" /\ \E k \in 1..Len(v.s) : v.s[k] = piece

\* !v
Falsy(v) == v = Undef \/ v = Null \/ v = EmptyStr \/ v = JNum(0)

\* a ?? b
Nullish(a, b) == IF a = Undef \/ a = Null THEN b ELSE a

\* a + b on numbers
Plus(a, b) == JNum(a.n + b.n)

----------------------------------------------------------------------------
(* Bounds and program constants *)

\* --runs values tried: 0..MaxRuns
MaxRuns == 3
\* --abortOnFails values tried: 0..MaxAbort
MaxAbort == 2
\* project-level retries tried for a suite that configures none: 0..MaxProjectRetries
MaxProjectRetries == 2
\* setups of the App's effect on one component instance: 0..MaxSetups
MaxSetups == 2
\* key presses, switch clicks and animation frames of a session: 0..MaxEvents
MaxEvents == 3
\* keys held down at once: 0..MaxHeld
MaxHeld == 2

\* CONFIDENCE_THRESHOLD of the pair suite (0.85)
PAIR_CONFIDENCE_THRESHOLD == 85
\* CONFIDENCE_THRESHOLD of the frame-sequence and video suites (0.80)
SEQ_CONFIDENCE_THRESHOLD == 80
\* test.describe.configure({ retries: 3 })
SUITE_RETRIES == 3
\* `presses` of 'frames movement: right (D)'
FRAME_PRESSES == 5

Kinds == {"pair", "frames", "video"}

----------------------------------------------------------------------------
(* The judge's response, as the gateway hands it over *)

\* certainties a response may carry, in hundredths: below 0, the ends of [0,1],
\* both thresholds and their neighbours, above 1
CertaintySamples == {-20, 0, 79, 80, 84, 85, 92, 100, 150}

StatusValues == {Undef, EmptyStr, Str("PASS"), Str("FAIL"), Str("MAYBE")}
CertaintyValues == {Undef, Str("0.9")} \cup {JNum(c) : c \in CertaintySamples}
ReasoningValues == {Undef, EmptyStr, Str("box moved right")}

\* response texts: not JSON at all, the JSON texts `null` and `5`, and JSON objects
\* with any combination of the three fields present, absent or ill-typed
Garbage == [doc |-> "garbage"]
DocNull == [doc |-> "null"]
DocScalar == [doc |-> "scalar"]
DocObject(s, c, r) == [doc |-> "object", status |-> s, certainty |-> c, reasoning |-> r]
ResponseTexts ==
    {Garbage, DocNull, DocScalar}
    \cup {DocObject(s, c, r) : s \in StatusValues, c \in CertaintyValues, r \in ReasoningValues}

\* response.usageMetadata: absent, or an object in which each counter may be absent
PromptCounts == {Undef, JNum(11)}
CandidateCounts == {Undef, JNum(5)}
TotalCounts == {Undef, JNum(16), JNum(20)}
UsageValues ==
    {Undef}
    \cup {[t |-> "object", promptTokenCount |-> p, candidatesTokenCount |-> c, totalTokenCount |-> n] :
            p \in PromptCounts, c \in CandidateCounts, n \in TotalCounts}

\* messages of the errors generateContent (or response.text()) throws:
\* transport, authentication, service
GatewayErrors == {"timeout", "API key not valid", "503 Service Unavailable"}

Threw(message) == [threw |-> TRUE, message |-> message]
Responded(text, usage) == [threw |-> FALSE, text |-> text, usage |-> usage]
GatewayOutcomes ==
    {Threw(m) : m \in GatewayErrors}
    \cup {Responded(x, u) : x \in ResponseTexts, u \in UsageValues}

----------------------------------------------------------------------------
(* The judge-analysis functions *)

JObject(s, c, r) == [t |-> "object", status |-> s, certainty |-> c, reasoning |-> r]

\* JSON.parse(text)
JSONparse(text) ==
    CASE text.doc = "garbage" -> Threw("Unexpected token o in JSON at position 1")
      [] text.doc = "null" -> [threw |-> FALSE, value |-> Null]
      [] text.doc = "scalar" -> [threw |-> FALSE, value |-> JNum(5)]
      [] OTHER -> [threw |-> FALSE, value |-> JObject(text.status, text.certainty, text.reasoning)]

\* v.status, v.certainty, v.reasoning on a non-null value
Field(v, name) == IF v.t = "object" THEN v[name] ELSE Undef

\* the named property of { ...v }
Spread(v, name) == IF v.t = "object" THEN v[name] ELSE Undef

Verdict(s, c, r, tk) == [status |-> s, certainty |-> c, reasoning |-> r, tokens |-> tk]
Tokens(p, c, n) == [t |-> "object", prompt |-> p, candidates |-> c, total |-> n]
ZeroTokens == Tokens(JNum(0), JNum(0), JNum(0))

Returned(v) == [threw |-> FALSE, verdict |-> v]
NoResult == [threw |-> FALSE, verdict |-> Undef]
NoResponse == [threw |-> FALSE, text |-> Undef, usage |-> Undef]
NoRequest == [built |-> FALSE, evidence |-> <<>>]

\* the catch block of analyzeVisualTest
VisualCatch(message) ==
    Verdict(Str("FAIL"), JNum(0), Concat(Str("Error during AI analysis: "), Str(message)), Undef)

\* the checks analyzeVisualTest makes on the parsed response
VisualMissingFields(parsed) ==
    \/ Falsy(Field(parsed, "status"))
    \/ Field(parsed, "certainty").t # "number"
    \/ Falsy(Field(parsed, "reasoning"))

VisualStatusInvalid(parsed) ==
    Field(parsed, "status") # Str("PASS") /\ Field(parsed, "status") # Str("FAIL")

\* the try/catch of analyzeVisualTest, given what generateContent did
VisualTry(gw) ==
    IF gw.threw THEN VisualCatch(gw.message)
    ELSE LET p == JSONparse(gw.text) IN
         IF p.threw THEN VisualCatch(p.message)
         ELSE IF p.value = Null
              THEN VisualCatch("Cannot read properties of null (reading 'status')")
         ELSE IF VisualMissingFields(p.value)
              THEN VisualCatch("AI response missing required fields (status, certainty, reasoning).")
         ELSE IF VisualStatusInvalid(p.value)
              THEN VisualCatch("AI status is invalid (must be PASS or FAIL).")
         ELSE Verdict(Field(p.value, "status"), Field(p.value, "certainty"),
                      Field(p.value, "reasoning"), Undef)

\* the catch block with a fixed text in place of e.message
SeqCatchNoMessage(message) ==
    Verdict(Str("FAIL"), JNum(0), Str("Error: analysis failed"), ZeroTokens)

\* the catch block of analyzeFrameSequenceTest and analyzeVideoTest
SeqCatch(message) ==
    Verdict(Str("FAIL"), JNum(0), Concat(Str("Error: "), Str(message)), ZeroTokens)

\* the `tokens` object with every absent counter read as 0, the total included
TokensOfZeroTotal(usage) ==
    Tokens(Nullish(Field(usage, "promptTokenCount"), JNum(0)),
           Nullish(Field(usage, "candidatesTokenCount"), JNum(0)),
           Nullish(Field(usage, "totalTokenCount"), JNum(0)))

\* the `tokens` object built from usageMetadata || {}
TokensOf(usage) ==
    LET p == Field(usage, "promptTokenCount")
        c == Field(usage, "candidatesTokenCount")
        n == Field(usage, "totalTokenCount")
    IN Tokens(Nullish(p, JNum(0)), Nullish(c, JNum(0)),
              Nullish(n, Plus(Nullish(p, JNum(0)), Nullish(c, JNum(0)))))

\* the try block reading the counters off usageMetadata without `|| {}`: absent
\* metadata throws into the catch block
SeqTryUsageRequired(gw) ==
    IF gw.threw THEN SeqCatch(gw.message)
    ELSE LET p == JSONparse(gw.text) IN
         IF p.threw THEN SeqCatch(p.message)
         ELSE IF gw.usage = Undef
              THEN SeqCatch("Cannot read properties of undefined (reading 'promptTokenCount')")
         ELSE Verdict(Spread(p.value, "status"), Spread(p.value, "certainty"),
                      Spread(p.value, "reasoning"), TokensOf(gw.usage))

\* the try/catch of analyzeFrameSequenceTest and analyzeVideoTest
SeqTry(gw) ==
    IF gw.threw THEN SeqCatch(gw.message)
    ELSE LET p == JSONparse(gw.text) IN
         IF p.threw THEN SeqCatch(p.message)
         ELSE Verdict(Spread(p.value, "status"), Spread(p.value, "certainty"),
                      Spread(p.value, "reasoning"), TokensOf(gw.usage))

\* what the analysis function of the scenario's kind returns once the gateway answered
AnalysisReturn(k, gw) == IF k = "pair" THEN VisualTry(gw) ELSE SeqTry(gw)

\* if (!GEMINI_API_KEY) throw ...
CredentialValues == {Undef, EmptyStr, Str("key")}
\* the check as `GEMINI_API_KEY === undefined`
CredentialUndefinedOnly(cred) == cred = Undef

CredentialMissing(cred) == Falsy(cred)
ConfigErrorMessage(k) ==
    IF k = "pair" THEN "GEMINI_API_KEY environment variable not set." ELSE "GEMINI_API_KEY not set"

----------------------------------------------------------------------------
(* The scenario: one Playwright test of an AI suite, with its retries *)

\* CONFIDENCE_THRESHOLD of the suite the scenario belongs to
Threshold(k) == IF k = "pair" THEN PAIR_CONFIDENCE_THRESHOLD ELSE SEQ_CONFIDENCE_THRESHOLD

\* the gate with toBeGreaterThan in place of toBeGreaterThanOrEqual
DecideStrict(v, threshold) ==
    IF v.status # Str("PASS") THEN "FAIL"
    ELSE IF v.certainty.t # "number" THEN "FAIL"
    ELSE IF v.certainty.n > threshold THEN "PASS"
    ELSE "FAIL"

\* the gate with the comparison turned round (toBeLessThanOrEqual)
DecideInverted(v, threshold) ==
    IF v.status # Str("PASS") THEN "FAIL"
    ELSE IF v.certainty.t # "number" THEN "FAIL"
    ELSE IF v.certainty.n <= threshold THEN "PASS"
    ELSE "FAIL"

\* expect(ai.status).toBe('PASS'); expect(ai.certainty).toBeGreaterThanOrEqual(threshold):
\* the second matcher rejects a received value that is not a number
Decide(v, threshold) ==
    IF v.status # Str("PASS") THEN "FAIL"
    ELSE IF v.certainty.t # "number" THEN "FAIL"
    ELSE IF v.certainty.n >= threshold THEN "PASS"
    ELSE "FAIL"

\* retries of the suite: the frame-sequence and video suites configure 3, the pair
\* suite configures none and gets the project's
Retries(k, project) == IF k = "pair" THEN project ELSE SUITE_RETRIES

\* the retry test with one attempt too many
ShouldRetryOnceMore(d, n, retries) == d = "FAIL" /\ n <= retries + 1

\* the test runner starts another attempt after a failed one while retries remain
ShouldRetry(d, n, retries) == d = "FAIL" /\ n <= retries

\* pieces of evidence an attempt captures: before and after; the first frame, one per
\* press and the last; one clip
ShotsNeeded(k) ==
    CASE k = "pair" -> 2
      [] k = "frames" -> FRAME_PRESSES + 2
      [] OTHER -> 1

Shot(a, n) == [attempt |-> a, index |-> n]

\* the test body with a capture call that is not awaited
CaptureNotAwaited(state) == TRUE

\* every capture call of the test body is awaited before the next statement runs
CaptureAwaited(state) == state = "done"

\* the media parts of the request are made from the buffers the test body passes in
RequestEvidence(ev) == ev

JudgeInit ==
    /\ kind \in Kinds
    /\ credential \in CredentialValues
    /\ projectRetries \in (IF kind = "pair" THEN 0..MaxProjectRetries ELSE {0})
    /\ attempt = 1
    /\ pc = "beforeEach"
    /\ captureState = "none"
    /\ evidence = <<>>
    /\ request = NoRequest
    /\ call = "none"
    /\ response = NoResponse
    /\ result = NoResult
    /\ decision = "none"
    /\ history = <<>>
    /\ netCalls = 0
    /\ outcome = "none"

\* beforeEach: the page is loaded and MainBox is there
BeforeEach ==
    /\ pc = "beforeEach"
    /\ pc' = "capture"
    /\ UNCHANGED <<kind, credential, projectRetries, attempt, captureState, evidence, request,
                   call, response, result, decision, history, netCalls, outcome>>
    /\ UNCHANGED <<runnerVars, promptVars, appVars>>

\* one awaited capture call: a screenshot, or the start or the stop of the recording
CaptureStep ==
    /\ pc = "capture"
    /\ captureState # "done"
    /\ IF kind = "video" /\ captureState = "none"
       THEN /\ captureState' = "inProgress"
            /\ evidence' = evidence
       ELSE /\ evidence' = Append(evidence, Shot(attempt, Len(evidence)))
            /\ captureState' = IF Len(evidence) + 1 = ShotsNeeded(kind) THEN "done" ELSE "inProgress"
    /\ UNCHANGED <<kind, credential, projectRetries, attempt, pc, request, call, response,
                   result, decision, history, netCalls, outcome>>
    /\ UNCHANGED <<runnerVars, promptVars, appVars>>

\* a capture call throws (the canvas never shows up, the recorder fails): the attempt
\* fails with no Verdict
CaptureFails ==
    /\ pc \in {"beforeEach", "capture"}
    /\ captureState # "done"
    /\ decision' = "FAIL"
    /\ pc' = "attemptEnd"
    /\ UNCHANGED <<kind, credential, projectRetries, attempt, captureState, evidence, request,
                   call, response, result, history, netCalls, outcome>>
    /\ UNCHANGED <<runnerVars, promptVars, appVars>>

\* git diff and testContext, then the call of the analysis function
BuildContext ==
    /\ pc = "capture"
    /\ CaptureAwaited(captureState)
    /\ pc' = "analyze"
    /\ UNCHANGED <<kind, credential, projectRetries, attempt, captureState, evidence, request,
                   call, response, result, decision, history, netCalls, outcome>>
    /\ UNCHANGED <<runnerVars, promptVars, appVars>>

\* the first statement of the analysis function
CheckCredential ==
    /\ pc = "analyze"
    /\ IF CredentialMissing(credential)
       THEN /\ result' = Threw(ConfigErrorMessage(kind))
            /\ decision' = "FAIL"
            /\ pc' = "attemptEnd"
       ELSE /\ pc' = "build"
            /\ UNCHANGED <<result, decision>>
    /\ UNCHANGED <<kind, credential, projectRetries, attempt, captureState, evidence, request,
                   call, response, history, netCalls, outcome>>
    /\ UNCHANGED <<runnerVars, promptVars, appVars>>

\* prompt and media parts
BuildRequest ==
    /\ pc = "build"
    /\ request' = [built |-> TRUE, evidence |-> RequestEvidence(evidence)]
    /\ pc' = "call"
    /\ UNCHANGED <<kind, credential, projectRetries, attempt, captureState, evidence, call,
                   response, result, decision, history, netCalls, outcome>>
    /\ UNCHANGED <<runnerVars, promptVars, appVars>>

\* await model.generateContent(...)
IssueCall ==
    /\ pc = "call"
    /\ call' = "inFlight"
    /\ netCalls' = netCalls + 1
    /\ pc' = "await"
    /\ UNCHANGED <<kind, credential, projectRetries, attempt, captureState, evidence, request,
                   response, result, decision, history, outcome>>
    /\ UNCHANGED <<runnerVars, promptVars, appVars>>

\* the remote service answers, or the call throws
GatewayResponds ==
    /\ pc = "await"
    /\ \E gw \in GatewayOutcomes :
          /\ response' = gw
          /\ call' = IF gw.threw THEN "threw" ELSE "returned"
    /\ pc' = "parse"
    /\ UNCHANGED <<kind, credential, projectRetries, attempt, captureState, evidence, request,
                   result, decision, history, netCalls, outcome>>
    /\ UNCHANGED <<runnerVars, promptVars, appVars>>

\* the remote service does not answer: generateContent is awaited with no timer of
\* its own, the analysis function stays suspended, and the test runner's per-test
\* timeout ends the attempt as failed while the call is pending
TestTimeout ==
    /\ pc = "await"
    /\ call' = "abandoned"
    /\ decision' = "FAIL"
    /\ pc' = "attemptEnd"
    /\ UNCHANGED <<kind, credential, projectRetries, attempt, captureState, evidence, request,
                   response, result, history, netCalls, outcome>>
    /\ UNCHANGED <<runnerVars, promptVars, appVars>>

\* the rest of the try block, or the catch block: the function returns a Verdict
ParseResponse ==
    /\ pc = "parse"
    /\ result' = Returned(AnalysisReturn(kind, response))
    /\ pc' = "assert"
    /\ UNCHANGED <<kind, credential, projectRetries, attempt, captureState, evidence, request,
                   call, response, decision, history, netCalls, outcome>>
    /\ UNCHANGED <<runnerVars, promptVars, appVars>>

\* the two expect() of the test body
AssertVerdict ==
    /\ pc = "assert"
    /\ decision' = Decide(result.verdict, Threshold(kind))
    /\ pc' = "attemptEnd"
    /\ UNCHANGED <<kind, credential, projectRetries, attempt, captureState, evidence, request,
                   call, response, result, history, netCalls, outcome>>
    /\ UNCHANGED <<runnerVars, promptVars, appVars>>

Finished(n, d, ev, res, c) ==
    [attempt |-> n, decision |-> d, evidence |-> ev, judged |-> res # NoResult /\ ~res.threw,
     called |-> c # "none"]

\* the test runner retries a failed attempt on a fresh page
Retry ==
    /\ pc = "attemptEnd"
    /\ ShouldRetry(decision, attempt, Retries(kind, projectRetries))
    /\ history' = Append(history, Finished(attempt, decision, request.evidence, result, call))
    /\ attempt' = attempt + 1
    /\ pc' = "beforeEach"
    /\ captureState' = "none"
    /\ evidence' = <<>>
    /\ request' = NoRequest
    /\ call' = "none"
    /\ response' = NoResponse
    /\ result' = NoResult
    /\ decision' = "none"
    /\ UNCHANGED <<kind, credential, projectRetries, netCalls, outcome>>
    /\ UNCHANGED <<runnerVars, promptVars, appVars>>

\* the test runner reports the scenario
Finish ==
    /\ pc = "attemptEnd"
    /\ ~ShouldRetry(decision, attempt, Retries(kind, projectRetries))
    /\ history' = Append(history, Finished(attempt, decision, request.evidence, result, call))
    /\ outcome' = decision
    /\ pc' = "done"
    /\ UNCHANGED <<kind, credential, projectRetries, attempt, captureState, evidence, request,
                   call, response, result, decision, netCalls>>
    /\ UNCHANGED <<runnerVars, promptVars, appVars>>

JudgeNext ==
    \/ BeforeEach
    \/ CaptureStep
    \/ CaptureFails
    \/ BuildContext
    \/ CheckCredential
    \/ BuildRequest
    \/ IssueCall
    \/ GatewayResponds
    \/ TestTimeout
    \/ ParseResponse
    \/ AssertVerdict
    \/ Retry
    \/ Finish

----------------------------------------------------------------------------
(* The metrics runner *)

\* wall-clock durations a run may take, in ms
DurationSamples == {10, 25}

\* a test of the JSON report: status, and errors[0].message as its lines
\* (Undef: the test has no errors); a suite: its tests and child suites (absent ones
\* read as [] by the scan); json.suites: an array of suites, or absent
Test(st, msg) == [status |-> st, message |-> msg]
Suite(tests, suites) == [tests |-> tests, suites |-> suites]
JArr(a) == [t |-> "array", a |-> a]

FailedA == Test("failed", Str("AI failed. Reason: box did not move"))
FailedB == Test("failed", JStr(<<"Low certainty. Reason: unsure", "    at tests/box.spec.ts:253">>))
FailedNoError == Test("failed", Undef)
Passed == Test("passed", Undef)

\* what the child wrote to stdout: nothing, text that is not JSON, or a JSON report
\* with or without stats.numFailingTests and suites
StdoutEmpty == [doc |-> "empty"]
StdoutGarbage == [doc |-> "garbage"]
StdoutReport(n, suites) == [doc |-> "report", numFailingTests |-> n, suites |-> suites]
StdoutSamples ==
    { StdoutEmpty,
      StdoutGarbage,
      StdoutReport(Undef, Undef),
      StdoutReport(Undef, JArr(<<Suite(<<Passed>>, <<>>)>>)),
      StdoutReport(Undef, JArr(<<Suite(<<>>, <<Suite(<<FailedA, Passed>>, <<>>)>>)>>)),
      StdoutReport(JNum(0), JArr(<<Suite(<<Passed>>, <<>>)>>)),
      StdoutReport(JNum(1), JArr(<<Suite(<<FailedB>>, <<>>)>>)),
      StdoutReport(JNum(1), JArr(<<Suite(<<FailedNoError>>, <<>>)>>)),
      StdoutReport(JNum(2), JArr(<<Suite(<<FailedA>>, <<Suite(<<FailedB>>, <<>>)>>)>>)),
      StdoutReport(JNum(1), JArr(<<Suite(<<>>, <<Suite(<<>>, <<Suite(<<FailedA>>, <<>>)>>)>>)>>)) }

ChildOutcomes == [status : {0, 1}, stdout : StdoutSamples, duration : DurationSamples]

\* JSON.parse(proc.stdout || '{}'), and the object the catch block makes instead
RunnerParse(stdout) ==
    CASE stdout.doc = "empty" -> [numFailingTests |-> Undef, suites |-> Undef]
      [] stdout.doc = "garbage" -> [numFailingTests |-> Undef, suites |-> Undef]
      [] OTHER -> [numFailingTests |-> stdout.numFailingTests, suites |-> stdout.suites]

\* json?.stats?.numFailingTests ?? (proc.status === 0 ? 0 : 1)
NumFailed(json, status) ==
    Nullish(json.numFailingTests, IF status = 0 THEN JNum(0) ELSE JNum(1))

\* numFailed === 0
RunSucceeded(numFailed) == numFailed = JNum(0)

\* the reasons one list of tests adds: the first line of errors[0].message of every
\* failed test that has an error, or 'Failure' when that line is empty or missing
RECURSIVE TestReasons(_)
TestReasons(tests) ==
    IF tests = <<>> THEN <<>>
    ELSE LET tst == Head(tests)
             line == IF tst.message = Undef \/ tst.message = EmptyStr
                     THEN <<>>
                     ELSE <<tst.message.s[1]>>
         IN (IF tst.status = "failed" /\ tst.message # Undef
             THEN <<IF line = <<>> THEN "Failure" ELSE line[1]>>
             ELSE <<>>) \o TestReasons(Tail(tests))

\* the tests of the direct children of a suite
RECURSIVE ChildReasons(_)
ChildReasons(children) ==
    IF children = <<>> THEN <<>>
    ELSE TestReasons(Head(children).tests) \o ChildReasons(Tail(children))

\* the two loops over json.suites
RECURSIVE SuiteReasons(_)
SuiteReasons(suites) ==
    IF suites = <<>> THEN <<>>
    ELSE TestReasons(Head(suites).tests) \o ChildReasons(Head(suites).suites)
         \o SuiteReasons(Tail(suites))

\* reasons.join(' | ')
RECURSIVE Join(_)
Join(reasons) ==
    IF reasons = <<>> THEN <<>>
    ELSE IF Len(reasons) = 1 THEN reasons
    ELSE <<reasons[1], " | ">> \o Join(Tail(reasons))

\* extractReasoning(json)
extractReasoning(json) ==
    IF json.suites = Undef THEN Str("No reasoning")
    ELSE LET joined == JStr(Join(SuiteReasons(json.suites.a)))
         IN IF Falsy(joined) THEN Str("Failure") ELSE joined

\* the loop condition running one past the end
LoopContinuesOnePast(n, total) == n <= total + 1

\* the condition of the for loop
LoopContinues(n, total) == n <= total

\* the abort test as its comment words it ("abort if fail count exceeds")
AbortExceeded(threshold, fails) == threshold # 0 /\ fails > threshold

\* abortOn && results.failRuns >= abortOn
AbortReached(threshold, fails) == threshold # 0 /\ fails >= threshold

\* the exit code tolerating one failing run
ExitCodeLenient(fails) == IF fails > 1 THEN 1 ELSE 0

\* process.exit(results.failRuns ? 1 : 0)
ExitCodeOf(fails) == IF fails # 0 THEN 1 ELSE 0

\* the arguments of a run's child with the --workers flag left out (Playwright's
\* default: several workers)
ChildArgsDefaultWorkers(run) == [run |-> run, workers |-> 2, reporter |-> "json"]

\* `args` of run number `run`: ..., '--workers=1', '--reporter=json'
ChildArgs(run) == [run |-> run, workers |-> 1, reporter |-> "json"]

\* the failure entry numbering the runs from 0
FailureRecordZeroBased(run, json, numFailed, out) ==
    [run |-> run - 1, reasoning |-> extractReasoning(json), failingTests |-> numFailed,
     tail |-> out.stdout.doc]

\* results.failures.push({ run: i, reasoning, failingTests: numFailed, tail })
FailureRecord(run, json, numFailed, out) ==
    [run |-> run, reasoning |-> extractReasoning(json), failingTests |-> numFailed,
     tail |-> out.stdout.doc]

\* what spawnSync returns once the child of run number `run` has terminated
NoProc == [exited |-> FALSE]
SpawnResult(run, out) ==
    [exited |-> TRUE, run |-> run, status |-> out.status, stdout |-> out.stdout]

\* reduce((a, b) => a + b, 0) over the durations
RECURSIVE Sum(_)
Sum(durations) == IF durations = <<>> THEN 0 ELSE Head(durations) + Sum(Tail(durations))

NoReport == [written |-> FALSE]

\* the report with `runs` taken from the runs that were executed
ReportDocExecutedRuns(requested, pass, fail, durations, fails) ==
    [written |-> TRUE, runs |-> Len(durations), passRuns |-> pass, failRuns |-> fail,
     durationsMs |-> durations, failures |-> fails, totalMs |-> Sum(durations)]

\* the report written from the results as they were before the latest failing run
ReportDocStale(requested, pass, fail, durations, fails) ==
    [written |-> TRUE, runs |-> requested, passRuns |-> pass, failRuns |-> fail,
     durationsMs |-> durations,
     failures |-> IF fails = <<>> THEN fails ELSE SubSeq(fails, 1, Len(fails) - 1),
     totalMs |-> Sum(durations)]

\* JSON.stringify({ ...results, stats }): `runs` is the --runs argument
ReportDoc(requested, pass, fail, durations, fails) ==
    [written |-> TRUE, runs |-> requested, passRuns |-> pass, failRuns |-> fail,
     durationsMs |-> durations, failures |-> fails, totalMs |-> Sum(durations)]

RunnerInit ==
    /\ rpc = "args"
    /\ specArg \in BOOLEAN
    /\ runs \in 0..MaxRuns
    /\ abortOn \in 0..MaxAbort
    /\ i = 0
    /\ childRunning = FALSE
    /\ passRuns = 0
    /\ failRuns = 0
    /\ durationsMs = <<>>
    /\ failures = <<>>
    /\ aborted = FALSE
    /\ report = NoReport
    /\ reportWrites = 0
    /\ exitCode = 0
    /\ spawned = <<>>
    /\ proc = NoProc
    /\ success = FALSE

\* getArg('spec'), the check of it, and the other arguments
ParseArgs ==
    /\ rpc = "args"
    /\ IF ~specArg
       THEN /\ rpc' = "exited"
            /\ exitCode' = 1
            /\ i' = i
       ELSE /\ rpc' = "loop"
            /\ i' = 1
            /\ exitCode' = exitCode
    /\ UNCHANGED <<specArg, runs, abortOn, childRunning, passRuns, failRuns, durationsMs,
                   failures, aborted, report, reportWrites>>
    /\ UNCHANGED <<spawned, proc, success>>
    /\ UNCHANGED <<judgeVars, promptVars, appVars>>

\* the loop goes round: spawnSync starts the child and blocks
SpawnChild ==
    /\ rpc = "loop"
    /\ LoopContinues(i, runs)
    /\ childRunning' = TRUE
    /\ spawned' = Append(spawned, ChildArgs(i))
    /\ rpc' = "child"
    /\ UNCHANGED <<proc, success>>
    /\ UNCHANGED <<specArg, runs, abortOn, i, passRuns, failRuns, durationsMs, failures,
                   aborted, report, reportWrites, exitCode>>
    /\ UNCHANGED <<judgeVars, promptVars, appVars>>

\* the child terminates: the rest of the loop body, up to the abort check
ChildExits ==
    /\ rpc = "child"
    /\ \E out \in ChildOutcomes :
          LET json == RunnerParse(out.stdout)
              numFailed == NumFailed(json, out.status)
              ok == RunSucceeded(numFailed)
              fails == IF ok THEN failRuns ELSE failRuns + 1
          IN /\ proc' = SpawnResult(i, out)
             /\ success' = ok
             /\ durationsMs' = Append(durationsMs, out.duration)
             /\ passRuns' = IF ok THEN passRuns + 1 ELSE passRuns
             /\ failRuns' = fails
             /\ failures' = IF ok THEN failures
                            ELSE Append(failures, FailureRecord(i, json, numFailed, out))
             /\ IF AbortReached(abortOn, fails)
                THEN /\ aborted' = TRUE
                     /\ rpc' = "summary"
                     /\ i' = i
                ELSE /\ aborted' = aborted
                     /\ rpc' = "loop"
                     /\ i' = i + 1
    /\ childRunning' = FALSE
    /\ spawned' = Tail(spawned)
    /\ UNCHANGED <<specArg, runs, abortOn, report, reportWrites, exitCode>>
    /\ UNCHANGED <<judgeVars, promptVars, appVars>>

\* the loop condition fails
LoopEnds ==
    /\ rpc = "loop"
    /\ ~LoopContinues(i, runs)
    /\ rpc' = "summary"
    /\ UNCHANGED <<specArg, runs, abortOn, i, childRunning, passRuns, failRuns, durationsMs,
                   failures, aborted, report, reportWrites, exitCode>>
    /\ UNCHANGED <<spawned, proc, success>>
    /\ UNCHANGED <<judgeVars, promptVars, appVars>>

\* the summary and fs.writeFileSync of { ...results, stats }
WriteReport ==
    /\ rpc = "summary"
    /\ report' = ReportDoc(runs, passRuns, failRuns, durationsMs, failures)
    /\ reportWrites' = reportWrites + 1
    /\ rpc' = "written"
    /\ UNCHANGED <<specArg, runs, abortOn, i, childRunning, passRuns, failRuns, durationsMs,
                   failures, aborted, exitCode>>
    /\ UNCHANGED <<spawned, proc, success>>
    /\ UNCHANGED <<judgeVars, promptVars, appVars>>

\* process.exit(results.failRuns ? 1 : 0)
Exit ==
    /\ rpc = "written"
    /\ exitCode' = ExitCodeOf(failRuns)
    /\ rpc' = "exited"
    /\ UNCHANGED <<specArg, runs, abortOn, i, childRunning, passRuns, failRuns, durationsMs,
                   failures, aborted, report, reportWrites>>
    /\ UNCHANGED <<spawned, proc, success>>
    /\ UNCHANGED <<judgeVars, promptVars, appVars>>

RunnerNext ==
    \/ ParseArgs
    \/ SpawnChild
    \/ ChildExits
    \/ LoopEnds
    \/ WriteReport
    \/ Exit

----------------------------------------------------------------------------
(* The context builder: the prompt an analysis function makes of the testContext *)

\* the two texts movementAwareNote is chosen from
MOVEMENT_NOTE ==
    "If the test context describes movement, you MUST consider object position changes; measure horizontal pixel shift."
STABLE_NOTE == "Assume object position remains stable; focus on visual appearance changes."

\* texts of the contract's fields, word by word: the Expectation lines of the suites'
\* tests, and Warnings and Notes with and without a word the pattern matches
ExpectationTexts ==
    { JStr(<<"Box", "shifts", "horizontally", "to", "screen-right.">>),
      JStr(<<"Box", "moves", "forward", "deeper", "into", "scene.">>),
      JStr(<<"Progressive", "forward", "(deeper)", "movement", "into", "scene.">>),
      JStr(<<"Box", "rotates", "clockwise", "position", "mostly", "stable.">>),
      JStr(<<"panel", "disappears", "when", "the", "]", "key", "is", "pressed.">>) }
WarningTexts ==
    { JStr(<<"Ignore", "slight", "translation", "jitter,", "particles,", "panel.">>),
      JStr(<<"Ignore", "apparent", "camera", "shift,", "particles.">>) }
NotesTexts ==
    { EmptyStr,
      JStr(<<"focus", "on", "position", "change.">>),
      JStr(<<"the", "camera", "does", "not", "move.">>) }

Contracts == [expectation : ExpectationTexts, warnings : WarningTexts, notes : NotesTexts]

\* the words of those texts in which /moves?|shift(s)?|translate(s)?/i finds a match
\* ("translation" has none)
MovementWords == {"shifts", "moves", "movement", "shift,", "move."}

\* /moves?|shift(s)?|translate(s)?/i.test(text): a match anywhere in the text
MovementPattern(text) == \E k \in 1..Len(text.s) : text.s[k] \in MovementWords

\* the testContext template of a test, after .replace(/\s+/g, ' ').trim()
TestContextOf(c) ==
    JStr(<<"Subject:", "Blue", "wireframe", "box", "(MainBox).", "Expectation:">>
         \o c.expectation.s \o <<"Warnings:">> \o c.warnings.s
         \o (IF c.notes = EmptyStr THEN <<>> ELSE <<"Notes:">> \o c.notes.s))

\* movementAwareNote of analyzeVisualTest and analyzeVideoTest; analyzeFrameSequenceTest
\* has no such constant
NoteOf(f, text) ==
    IF f = "frames" THEN Undef
    ELSE IF MovementPattern(text) THEN Str(MOVEMENT_NOTE) ELSE Str(STABLE_NOTE)

\* the prompt template of each function: its fixed instructions, the note where the
\* template has ${movementAwareNote}, and the testContext
PromptOf(f, note, text) ==
    CASE f = "pair" ->
           JStr(<<"You are a hyper-focused AI Quality Assurance Analyst.">> \o note.s
                \o <<"3. If movement: estimate X,Y pixel center before vs after; report them.",
                     "Test Context:">> \o text.s)
      [] f = "video" ->
           JStr(<<"You are a visual QA analyst provided with a single WebM video.">> \o note.s
                \o <<"Test Context:">> \o text.s)
      [] OTHER ->
           JStr(<<"You are a visual QA analyst. You receive an ordered sequence of PNG frames.",
                  "3. Ignore apparent rotation caused by camera perspective if Notes say to ignore.",
                  "Test Context:">> \o text.s)

PromptInit ==
    /\ ppc = "test"
    /\ fn \in Kinds
    /\ contract \in Contracts
    /\ testContext = Undef
    /\ movementAwareNote = Undef
    /\ prompt = Undef

\* the test body words its testContext and calls the analysis function
WriteContext ==
    /\ ppc = "test"
    /\ testContext' = TestContextOf(contract)
    /\ ppc' = "analyze"
    /\ UNCHANGED <<fn, contract, movementAwareNote, prompt>>
    /\ UNCHANGED <<judgeVars, runnerVars, appVars>>

\* const movementAwareNote = ... (pair and video)
ChooseNote ==
    /\ ppc = "analyze"
    /\ movementAwareNote' = NoteOf(fn, testContext)
    /\ ppc' = "note"
    /\ UNCHANGED <<fn, contract, testContext, prompt>>
    /\ UNCHANGED <<judgeVars, runnerVars, appVars>>

\* const prompt = `...`
BuildPrompt ==
    /\ ppc = "note"
    /\ prompt' = PromptOf(fn, movementAwareNote, testContext)
    /\ ppc' = "built"
    /\ UNCHANGED <<fn, contract, testContext, movementAwareNote>>
    /\ UNCHANGED <<judgeVars, runnerVars, appVars>>

PromptNext ==
    \/ WriteContext
    \/ ChooseNote
    \/ BuildPrompt

----------------------------------------------------------------------------
(* The App component: the three.js scene, its hotkeys and its effects.      *)
(* Lengths are in ten-thousandths of a world unit (0.5 is 5000), so that    *)
(* the top-down z offset 0.0001 is 1 and every sum is exact.                *)

Vec(x, y, z) == [x |-> x, y |-> y, z |-> z]
VAdd(u, v) == Vec(u.x + v.x, u.y + v.y, u.z + v.z)
VSub(u, v) == Vec(u.x - v.x, u.y - v.y, u.z - v.z)

\* const step = 0.5
STEP == 5000
\* line.position.y = 0.505 (x and z stay 0)
BOX_START == Vec(0, 5050, 0)
\* camera.position.set(4, 3, 6)
CAMERA_START == Vec(40000, 30000, 60000)
\* controls.target.set(0, 0.5, 0)
TARGET_START == Vec(0, 5000, 0)
\* const height = 30
TOP_HEIGHT == 300000
\* the tiny z of the top-down camera, 0.0001
TOP_Z == 1
\* const initialRandomness = true
initialRandomness == TRUE
\* a ref or position before the world is built
Nowhere == Vec(0, 0, 0)

\* e.key.toLowerCase() of the key events tried: the four moves, centre, top-down, the
\* drawer, randomness, and 'e', which moveOnce has no case for
Keys == {"w", "a", "s", "d", "c", "t", "]", "n", "e"}

\* (Math.random() - 0.5) * 0.002 on each axis lies in [-0.001, 0.001): the per-frame
\* camera jitters tried
Jitters == {Vec(-10, 4, 9), Vec(3, -10, 0)}

\* originalViewRef.current: null, or { pos, target }
NoView == [stored |-> FALSE]
StoredView(p, t) == [stored |-> TRUE, pos |-> p, target |-> t]

\* moveOnce with w and s exchanged
MoveBoxForwardIsPlusZ(k, b) ==
    CASE k = "w" -> Vec(b.x, b.y, b.z + STEP)
      [] k = "s" -> Vec(b.x, b.y, b.z - STEP)
      [] k = "a" -> Vec(b.x - STEP, b.y, b.z)
      [] k = "d" -> Vec(b.x + STEP, b.y, b.z)
      [] OTHER -> b

\* moveOnce where a move also lifts the box
MoveBoxLifts(k, b) ==
    CASE k = "w" -> Vec(b.x, b.y + 1, b.z - STEP)
      [] k = "s" -> Vec(b.x, b.y + 1, b.z + STEP)
      [] k = "a" -> Vec(b.x - STEP, b.y + 1, b.z)
      [] k = "d" -> Vec(b.x + STEP, b.y + 1, b.z)
      [] OTHER -> b

\* moveOnce, the cases w, s, a, d: rect.position after the key
MoveBox(k, b) ==
    CASE k = "w" -> Vec(b.x, b.y, b.z - STEP)
      [] k = "s" -> Vec(b.x, b.y, b.z + STEP)
      [] k = "a" -> Vec(b.x - STEP, b.y, b.z)
      [] k = "d" -> Vec(b.x + STEP, b.y, b.z)
      [] OTHER -> b

\* moveOnce: rect.rotation.y after the key; no case of the switch touches the rotation
RotateBox(k, r) == r

\* case 'c' moving the target only
CenterOnTargetOnly(cam, tgt, b) ==
    [camera |-> cam, target |-> b]

\* case 'c': delta = rect.position - controls.target, added to the camera position and
\* to the target
CenterOn(cam, tgt, b) ==
    LET delta == VSub(b, tgt)
    IN  [camera |-> VAdd(cam, delta), target |-> VAdd(tgt, delta)]

\* toggleTopDown whose restore keeps the stored view
ToggleTopDownKeepsView(cam, tgt, b, view) ==
    IF ~view.stored
    THEN [camera |-> Vec(b.x, b.y + TOP_HEIGHT, b.z + TOP_Z), target |-> b,
          view |-> StoredView(cam, tgt)]
    ELSE [camera |-> view.pos, target |-> view.target, view |-> view]

\* toggleTopDownRef.current: store the view and go top-down over the box, or restore
\* the stored view and clear it
ToggleTopDown(cam, tgt, b, view) ==
    IF ~view.stored
    THEN [camera |-> Vec(b.x, b.y + TOP_HEIGHT, b.z + TOP_Z), target |-> b,
          view |-> StoredView(cam, tgt)]
    ELSE [camera |-> view.pos, target |-> view.target, view |-> NoView]

\* handleKeyDown that never looks at keyDownMap
KeyArmedAlways(k, map) == TRUE

\* handleKeyDown: if (keyDownMap[k]) return
KeyArmed(k, map) == k \notin map

\* a noise context's dispose(): the cloud is disposed and removed from the scene; the
\* context of a disabled createNoise (0) disposes nothing
Dispose(cl, ctx) ==
    IF ctx = 0 THEN cl
    ELSE [cl EXCEPT ![ctx].disposed = TRUE, ![ctx].inScene = FALSE]

\* createNoise(scene, enabled): the clouds ever created and the new context
createNoise(cl, enabled) ==
    IF ~enabled THEN [clouds |-> cl, ctx |-> 0]
    ELSE [clouds |-> Append(cl, [inScene |-> TRUE, disposed |-> FALSE, updates |-> 0]),
          ctx |-> Len(cl) + 1]

\* a noise context's update(): points of its cloud are jittered
Update(cl, ctx) ==
    IF ctx = 0 THEN cl
    ELSE [cl EXCEPT ![ctx].updates = cl[ctx].updates + 1]

\* useEffect(..., [randomness]): dispose the old context, create one for `enabled`
NoiseEffect(scene, cl, ctx, enabled) ==
    IF ~scene THEN [clouds |-> cl, ctx |-> ctx]
    ELSE createNoise(Dispose(cl, ctx), enabled)

AppInit ==
    /\ effect = "new"
    /\ hasInitialized = FALSE
    /\ setups = 0
    /\ builds = 0
    /\ hasCleanup = FALSE
    /\ sceneRef = FALSE
    /\ canvasAttached = FALSE
    /\ keydownListeners = 0
    /\ keyupListeners = 0
    /\ animating = FALSE
    /\ animateRandomness = FALSE
    /\ open = TRUE
    /\ randomness = initialRandomness
    /\ box = Nowhere
    /\ yaw = 0
    /\ camera = Nowhere
    /\ target = Nowhere
    /\ originalView = NoView
    /\ keyDownMap = {}
    /\ pressed = {}
    /\ presses = [k \in Keys |-> 0]
    /\ fired = [k \in Keys |-> 0]
    /\ clouds = <<>>
    /\ noiseCtx = 0
    /\ events = 0

\* the commit of a mount: the setup of useEffect(..., []) and after it the effect of
\* [randomness]
Setup ==
    /\ effect \in {"new", "down"}
    /\ setups < MaxSetups
    /\ setups' = setups + 1
    /\ effect' = "up"
    /\ IF hasInitialized
       THEN \* if (!mountRef.current || hasInitialized.current) return
            LET n == NoiseEffect(sceneRef, clouds, noiseCtx, randomness)
            IN  /\ hasCleanup' = FALSE
                /\ clouds' = n.clouds
                /\ noiseCtx' = n.ctx
                /\ UNCHANGED <<hasInitialized, builds, sceneRef, canvasAttached,
                               keydownListeners, keyupListeners, animating,
                               animateRandomness, box, yaw, camera, target, keyDownMap>>
       ELSE LET first == createNoise(clouds, randomness)
                n == NoiseEffect(TRUE, first.clouds, first.ctx, randomness)
            IN  /\ hasInitialized' = TRUE
                /\ builds' = builds + 1
                /\ sceneRef' = TRUE
                /\ canvasAttached' = TRUE
                /\ box' = BOX_START
                /\ yaw' = 0
                /\ camera' = CAMERA_START
                /\ target' = TARGET_START
                /\ keyDownMap' = {}
                /\ keydownListeners' = keydownListeners + 1
                /\ keyupListeners' = keyupListeners + 1
                /\ animating' = TRUE
                /\ animateRandomness' = randomness
                /\ hasCleanup' = TRUE
                /\ clouds' = n.clouds
                /\ noiseCtx' = n.ctx
    /\ UNCHANGED <<open, randomness, originalView, pressed, presses, fired, events>>
    /\ UNCHANGED <<judgeVars, runnerVars, promptVars>>

\* the cleanup of a simulated or real unmount: what the latest setup returned
Cleanup ==
    /\ effect = "up"
    /\ effect' = "down"
    /\ IF hasCleanup
       THEN /\ keydownListeners' = keydownListeners - 1
            /\ keyupListeners' = keyupListeners - 1
            /\ clouds' = Dispose(clouds, noiseCtx)
            /\ canvasAttached' = FALSE
       ELSE UNCHANGED <<keydownListeners, keyupListeners, clouds, canvasAttached>>
    /\ hasCleanup' = FALSE
    /\ UNCHANGED <<hasInitialized, setups, builds, sceneRef, animating, animateRandomness,
                   open, randomness, box, yaw, camera, target, originalView, keyDownMap,
                   pressed, presses, fired, noiseCtx, events>>
    /\ UNCHANGED <<judgeVars, runnerVars, promptVars>>

\* moveOnce(k), with the render and the [randomness] effect that 'n' causes
MoveOnce(k) ==
    LET centred == CenterOn(camera, target, box)
        toggled == ToggleTopDown(camera, target, box, originalView)
        r == IF k = "n" THEN ~randomness ELSE randomness
        n == IF k = "n" THEN NoiseEffect(sceneRef, clouds, noiseCtx, r)
             ELSE [clouds |-> clouds, ctx |-> noiseCtx]
    IN  /\ box' = MoveBox(k, box)
        /\ yaw' = RotateBox(k, yaw)
        /\ camera' = CASE k = "c" -> centred.camera
                       [] k = "t" -> toggled.camera
                       [] OTHER -> camera
        /\ target' = CASE k = "c" -> centred.target
                       [] k = "t" -> toggled.target
                       [] OTHER -> target
        /\ originalView' = IF k = "t" THEN toggled.view ELSE originalView
        /\ open' = IF k = "]" THEN ~open ELSE open
        /\ randomness' = r
        /\ clouds' = n.clouds
        /\ noiseCtx' = n.ctx

\* a keydown event for k reaches the window: handleKeyDown, if it is registered
HandleKeyDown(k) ==
    IF keydownListeners > 0 /\ KeyArmed(k, keyDownMap)
    THEN /\ keyDownMap' = keyDownMap \cup {k}
         /\ fired' = [fired EXCEPT ![k] = fired[k] + 1]
         /\ MoveOnce(k)
    ELSE UNCHANGED <<keyDownMap, fired, box, yaw, camera, target, originalView, open,
                    randomness, clouds, noiseCtx>>

\* the user presses key k
KeyDown(k) ==
    /\ effect = "up"
    /\ k \notin pressed
    /\ Cardinality(pressed) < MaxHeld
    /\ events < MaxEvents
    /\ events' = events + 1
    /\ pressed' = pressed \cup {k}
    /\ presses' = [presses EXCEPT ![k] = presses[k] + 1]
    /\ HandleKeyDown(k)
    /\ UNCHANGED <<effect, hasInitialized, setups, builds, hasCleanup, sceneRef,
                   canvasAttached, keydownListeners, keyupListeners, animating,
                   animateRandomness>>
    /\ UNCHANGED <<judgeVars, runnerVars, promptVars>>

\* the key k is kept down and the browser repeats its keydown event
KeyRepeat(k) ==
    /\ k \in pressed
    /\ HandleKeyDown(k)
    /\ UNCHANGED <<pressed, presses>>
    /\ UNCHANGED <<effect, hasInitialized, setups, builds, hasCleanup, sceneRef,
                   canvasAttached, keydownListeners, keyupListeners, animating,
                   animateRandomness, events>>
    /\ UNCHANGED <<judgeVars, runnerVars, promptVars>>

\* the user releases key k: handleKeyUp, if it is registered
KeyUp(k) ==
    /\ k \in pressed
    /\ pressed' = pressed \ {k}
    /\ keyDownMap' = IF keyupListeners > 0 THEN keyDownMap \ {k} ELSE keyDownMap
    /\ UNCHANGED <<effect, hasInitialized, setups, builds, hasCleanup, sceneRef,
                   canvasAttached, keydownListeners, keyupListeners, animating,
                   animateRandomness, open, randomness, box, yaw, camera, target,
                   originalView, presses, fired, clouds, noiseCtx, events>>
    /\ UNCHANGED <<judgeVars, runnerVars, promptVars>>

\* the Switch of the drawer: onChange = toggleRandomness, then the render and the
\* [randomness] effect
ToggleSwitch ==
    /\ effect = "up"
    /\ events < MaxEvents
    /\ events' = events + 1
    /\ randomness' = ~randomness
    /\ LET n == NoiseEffect(sceneRef, clouds, noiseCtx, ~randomness)
       IN  /\ clouds' = n.clouds
           /\ noiseCtx' = n.ctx
    /\ UNCHANGED <<effect, hasInitialized, setups, builds, hasCleanup, sceneRef,
                   canvasAttached, keydownListeners, keyupListeners, animating,
                   animateRandomness, open, box, yaw, camera, target, originalView,
                   keyDownMap, pressed, presses, fired>>
    /\ UNCHANGED <<judgeVars, runnerVars, promptVars>>

\* one animation frame: animate(), which reads the `randomness` of the render whose
\* setup started the loop; controls.update() with no pointer input leaves the camera
\* position and the target as they are
Frame ==
    /\ animating
    /\ events < MaxEvents
    /\ events' = events + 1
    /\ IF animateRandomness
       THEN /\ clouds' = Update(clouds, noiseCtx)
            /\ \E j \in Jitters : camera' = VAdd(camera, j)
       ELSE UNCHANGED <<clouds, camera>>
    /\ UNCHANGED <<effect, hasInitialized, setups, builds, hasCleanup, sceneRef,
                   canvasAttached, keydownListeners, keyupListeners, animating,
                   animateRandomness, open, randomness, box, yaw, target, originalView,
                   keyDownMap, pressed, presses, fired, noiseCtx>>
    /\ UNCHANGED <<judgeVars, runnerVars, promptVars>>

AppNext ==
    \/ Setup
    \/ Cleanup
    \/ \E k \in Keys : KeyDown(k)
    \/ \E k \in Keys : KeyRepeat(k)
    \/ \E k \in Keys : KeyUp(k)
    \/ ToggleSwitch
    \/ Frame

----------------------------------------------------------------------------
(* Specifications *)

\* the runner before it is started, while a scenario is looked at
RunnerIdle ==
    /\ rpc = "args"
    /\ specArg = FALSE
    /\ runs = 0
    /\ abortOn = 0
    /\ i = 0
    /\ childRunning = FALSE
    /\ passRuns = 0
    /\ failRuns = 0
    /\ durationsMs = <<>>
    /\ failures = <<>>
    /\ aborted = FALSE
    /\ report = NoReport
    /\ reportWrites = 0
    /\ exitCode = 0
    /\ spawned = <<>>
    /\ proc = NoProc
    /\ success = FALSE

\* a scenario before it is started, while the runner is looked at
JudgeIdle ==
    /\ kind = "pair"
    /\ credential = Undef
    /\ projectRetries = 0
    /\ attempt = 1
    /\ pc = "beforeEach"
    /\ captureState = "none"
    /\ evidence = <<>>
    /\ request = NoRequest
    /\ call = "none"
    /\ response = NoResponse
    /\ result = NoResult
    /\ decision = "none"
    /\ history = <<>>
    /\ netCalls = 0
    /\ outcome = "none"

\* the context builder before a test calls it
PromptIdle ==
    /\ ppc = "test"
    /\ fn = "pair"
    /\ contract = [expectation |-> EmptyStr, warnings |-> EmptyStr, notes |-> EmptyStr]
    /\ testContext = Undef
    /\ movementAwareNote = Undef
    /\ prompt = Undef

Init == JudgeInit /\ RunnerIdle /\ PromptIdle /\ AppInit
Next == JudgeNext
Spec == Init /\ [][Next]_vars

RunnerSpecInit == RunnerInit /\ JudgeIdle /\ PromptIdle /\ AppInit
RunnerSpec == RunnerSpecInit /\ [][RunnerNext]_vars

PromptSpecInit == PromptInit /\ JudgeIdle /\ RunnerIdle /\ AppInit
PromptSpec == PromptSpecInit /\ [][PromptNext]_vars

AppSpecInit == AppInit /\ JudgeIdle /\ RunnerIdle /\ PromptIdle
AppSpec == AppSpecInit /\ [][AppNext]_vars

----------------------------------------------------------------------------
(* Claims about the scenario *)

\* the analysis function of the running attempt has returned a Verdict
HasVerdict == ~result.threw /\ result.verdict # Undef

\* the running attempt has made its assertions on a Verdict
Decided == HasVerdict /\ decision # "none"

\* thresholds the gate is tried with besides the suites' own, in hundredths
ThresholdSamples == {0, 50, 80, 85, 95, 100}

\* the Verdicts the gate is tried with as a pure function
GateVerdicts ==
    {Verdict(s, c, Str("box moved right"), Undef) : s \in StatusValues, c \in CertaintyValues}

\* PASS status and a numeric certainty at or above the threshold
MeetsGate(v, threshold) ==
    /\ v.status = Str("PASS")
    /\ v.certainty.t = "number"
    /\ v.certainty.n >= threshold

\* C1: the decision of an attempt is PASS if and only if the Verdict's status is PASS
\* and its certainty is at or above the suite's threshold (equality passes); a FAIL
\* status fails at any certainty, a PASS below the threshold fails.  The same holds
\* of the gate as a function, for every sampled Verdict and threshold.
C1_DecisionGate ==
    /\ Decided => (decision = "PASS" <=> MeetsGate(result.verdict, Threshold(kind)))
    /\ (attempt = 1 /\ pc = "beforeEach") =>
          \A v \in GateVerdicts, th \in ThresholdSamples :
             /\ Decide(v, th) = "PASS" <=> MeetsGate(v, th)
             /\ Decide(v, th) \in {"PASS", "FAIL"}

\* C1 witness: an attempt passed on a certainty exactly at the threshold
C1_Witness ==
    /\ Decided
    /\ decision = "PASS"
    /\ result.verdict.certainty = JNum(Threshold(kind))

\* the analysis function has returned for the gateway outcome held in `response`
Answered == HasVerdict /\ pc \in {"assert", "attemptEnd", "done"}

\* a response text that does not parse, parses to no object, lacks one of the three
\* fields or has a certainty that is not a number
Malformed(text) ==
    \/ text.doc # "object"
    \/ text.status = Undef
    \/ text.certainty.t # "number"
    \/ text.reasoning = Undef

\* status, certainty and reasoning are there and of their types
WellTyped(v) ==
    /\ v.status \in {Str("PASS"), Str("FAIL")}
    /\ v.certainty.t = "number"
    /\ v.reasoning.t = "string"

\* the synthetic failure Verdict: FAIL, 0.0, an error text, zero usage
Synthetic(v) ==
    /\ v.status = Str("FAIL")
    /\ v.certainty = JNum(0)
    /\ v.reasoning.t = "string" /\ Len(v.reasoning.s) = 2
    /\ v.tokens = ZeroTokens

\* C2 (as claimed): every Verdict an analysis function returns has status PASS or FAIL
\* and a certainty within [0.0, 1.0].
C2_VerdictInRange ==
    HasVerdict =>
       /\ result.verdict.status \in {Str("PASS"), Str("FAIL")}
       /\ result.verdict.certainty.t = "number"
       /\ result.verdict.certainty.n >= 0
       /\ result.verdict.certainty.n <= 100

\* C3 (as claimed): for a malformed response every analysis function returns the
\* synthetic Verdict with zero usage, and no returned Verdict lacks a required field
\* or has one of the wrong type.
C3_MalformedIsSynthetic ==
    Answered =>
       /\ WellTyped(result.verdict)
       /\ (~response.threw /\ Malformed(response.text)) => Synthetic(result.verdict)

\* C4 (as claimed): when the judge call throws, every analysis function returns FAIL,
\* 0.0, a reasoning with the error's message, and usage counters all present and zero.
C4_TransportErrorZeroUsage ==
    (pc \in {"parse", "assert", "attemptEnd", "done"} /\ response.threw) =>
       /\ ~result.threw
       /\ pc # "parse" =>
             /\ result.verdict.status = Str("FAIL")
             /\ result.verdict.certainty = JNum(0)
             /\ Contains(result.verdict.reasoning, response.message)
             /\ result.verdict.tokens = ZeroTokens

\* C4 (amended): when the judge call throws, the analysis function does not throw: it
\* returns FAIL, 0.0 and a reasoning with the error's message; the frame-sequence and
\* video functions add usage counters that are all zero, the pair function returns no
\* usage record.
C4_TransportErrorIsFail ==
    (pc \in {"parse", "assert", "attemptEnd", "done"} /\ response.threw) =>
       /\ ~result.threw
       /\ pc # "parse" =>
             /\ result.verdict.status = Str("FAIL")
             /\ result.verdict.certainty = JNum(0)
             /\ Contains(result.verdict.reasoning, response.message)
             /\ result.verdict.tokens = IF kind = "pair" THEN Undef ELSE ZeroTokens

\* C4 witness: the video function has returned after the gateway timed out
C4_Witness ==
    /\ Answered
    /\ kind = "video"
    /\ response.threw
    /\ response.message = "timeout"

\* C5: with the credential absent or empty the analysis function throws its
\* configuration error before any call of the remote service, and never returns a
\* Verdict.
C5_MissingCredentialThrows ==
    Falsy(credential) =>
       /\ netCalls = 0
       /\ call = "none"
       /\ ~request.built
       /\ ~HasVerdict
       /\ pc \notin {"build", "call", "await", "parse", "assert"}
       /\ (pc \in {"attemptEnd", "done"} /\ captureState = "done") =>
             /\ result = Threw(ConfigErrorMessage(kind))
             /\ decision = "FAIL"

\* C5 witness: the frame-sequence function threw on an empty credential
C5_Witness ==
    /\ credential = EmptyStr
    /\ kind = "frames"
    /\ pc = "attemptEnd"
    /\ result.threw
    /\ netCalls = 0

\* the attempts that ended with the given decision
AttemptsDeciding(d) == {k \in 1..Len(history) : history[k].decision = d}

\* the attempts whose analysis function returned a Verdict
JudgedAttempts == {k \in 1..Len(history) : history[k].judged}

\* the attempts that issued a judge call
CallingAttempts == {k \in 1..Len(history) : history[k].called}

\* what holds of the retry loop whatever the number of retries: an attempt starts only
\* after failures, the loop stops at the first PASS, the outcome is PASS iff an attempt
\* passed, and each attempt judges evidence it captured itself in a call of its own
RetryDiscipline ==
    /\ pc # "done" => Len(history) = attempt - 1 /\ AttemptsDeciding("PASS") = {}
    /\ pc = "done" =>
          /\ Len(history) = attempt
          /\ AttemptsDeciding("PASS") \subseteq {attempt}
          /\ outcome = "PASS" <=> AttemptsDeciding("PASS") # {}
          /\ outcome \in {"PASS", "FAIL"}
    /\ \A k \in 1..Len(history) :
          /\ history[k].attempt = k
          /\ \A n \in 1..Len(history[k].evidence) : history[k].evidence[n].attempt = k
          /\ history[k].judged => Len(history[k].evidence) = ShotsNeeded(kind)
    /\ request.built =>
          /\ Len(request.evidence) = ShotsNeeded(kind)
          /\ \A n \in 1..Len(request.evidence) : request.evidence[n].attempt = attempt
    /\ JudgedAttempts \subseteq CallingAttempts
    /\ netCalls = Cardinality(CallingAttempts)
                  + (IF pc # "done" /\ call # "none" THEN 1 ELSE 0)

\* C6 (as claimed): every AI-judged scenario, the pair scenarios included, is a retry
\* loop of 1 + 3 attempts: a scenario whose attempts were all judged ends FAIL only
\* after four attempts decided FAIL.
C6_FourAttemptsEveryKind ==
    /\ attempt <= SUITE_RETRIES + 1
    /\ (pc = "done" /\ outcome = "FAIL" /\ JudgedAttempts = 1..Len(history)) =>
          Len(history) = SUITE_RETRIES + 1
    /\ RetryDiscipline

\* C6 (amended): a frame-sequence or video scenario is a retry loop of at most 4
\* attempts (1 + 3 retries) that ends FAIL only after four failed attempts; the pair
\* suite configures no retries, so a pair scenario gets 1 attempt plus the retries of
\* the project configuration only.  For every kind an attempt starts only if all
\* earlier ones failed, the loop stops at the first PASS, the outcome is PASS iff an
\* attempt passed, and each attempt captures its own evidence and makes its own call.
C6_RetryLoop ==
    /\ attempt <= Retries(kind, projectRetries) + 1
    /\ kind \in {"frames", "video"} => attempt <= 4
    /\ (pc = "done" /\ outcome = "FAIL") =>
          Len(history) = (IF kind = "pair" THEN projectRetries ELSE 3) + 1
    /\ RetryDiscipline

\* C6 witness: a video scenario passed on its fourth attempt, after three judged ones
C6_Witness ==
    /\ kind = "video"
    /\ pc = "done"
    /\ outcome = "PASS"
    /\ Len(history) = 4
    /\ netCalls = 4

\* C7: within an attempt the judge call is issued only after all evidence is captured
\* and the request is built from it, the Verdict exists only after the call returned
\* or threw, and the decision on a Verdict only after the function returned it; no
\* call is in flight while capture is in progress.
C7_AttemptOrder ==
    /\ pc \in {"analyze", "build", "call", "await", "parse", "assert"} =>
          captureState = "done" /\ Len(evidence) = ShotsNeeded(kind)
    /\ request.built => captureState = "done" /\ request.evidence = evidence
    /\ call # "none" => request.built /\ captureState = "done"
    /\ call = "inFlight" => response = NoResponse /\ result = NoResult /\ decision = "none"
    /\ response # NoResponse => call \in {"returned", "threw"}
    /\ HasVerdict => response # NoResponse
    /\ decision = "PASS" => HasVerdict
    /\ (decision # "none" /\ call \in {"returned", "threw"}) => HasVerdict
    /\ call = "abandoned" => response = NoResponse /\ result = NoResult /\ decision = "FAIL"

\* C7 witness: the call of a video attempt is in flight, the recording stopped
C7_Witness ==
    /\ kind = "video"
    /\ call = "inFlight"
    /\ captureState = "done"
    /\ Len(evidence) = 1

\* C16 (as claimed): the judge call is bounded by a timeout of the analysis function:
\* an attempt that issued the call does not end before the function has returned a
\* Verdict, and when the judge never answered that Verdict is FAIL with a reason.
C16_JudgeCallBounded ==
    (pc \in {"attemptEnd", "done"} /\ call # "none") =>
       /\ HasVerdict
       /\ response = NoResponse =>
             /\ result.verdict.status = Str("FAIL")
             /\ result.verdict.reasoning.t = "string"

\* C17: the gate is monotonic in the threshold: for every sampled Verdict and
\* thresholds t1 < t2, a PASS at t2 is a PASS at t1; an attempt that passed at its suite's
\* threshold passes at every lower one.
C17_GateMonotonic ==
    /\ (Decided /\ decision = "PASS") =>
          \A t \in ThresholdSamples :
             t < Threshold(kind) => Decide(result.verdict, t) = "PASS"
    /\ (attempt = 1 /\ pc = "beforeEach") =>
          \A v \in GateVerdicts, t1 \in ThresholdSamples, t2 \in ThresholdSamples :
             (t1 < t2 /\ Decide(v, t2) = "PASS") => Decide(v, t1) = "PASS"

\* C17 witness: a video attempt passed exactly at 0.80; the same Verdict passes at 0.50
\* and fails at 0.85
C17_Witness ==
    /\ Decided
    /\ kind = "video"
    /\ decision = "PASS"
    /\ result.verdict.certainty = JNum(80)
    /\ Decide(result.verdict, 50) = "PASS"
    /\ Decide(result.verdict, 85) = "FAIL"

\* the frame-sequence or video function has returned from its try block: the response
\* arrived and its text parsed
ParsedBySeq == Answered /\ kind # "pair" /\ ~response.threw /\ response.text.doc # "garbage"

\* the counter the service reported under this name, Undef when the metadata or the
\* counter is absent
Reported(name) == Field(response.usage, name)

\* C18 (as claimed): each of the three counters of the usage record is the value the
\* service reported when present and zero when absent.
C18_AbsentCountersAreZero ==
    ParsedBySeq =>
       LET tk == result.verdict.tokens IN
          /\ tk.prompt = Nullish(Reported("promptTokenCount"), JNum(0))
          /\ tk.candidates = Nullish(Reported("candidatesTokenCount"), JNum(0))
          /\ tk.total = Nullish(Reported("totalTokenCount"), JNum(0))

\* C18 (amended): prompt and candidates are the reported values when present and zero
\* when absent; total is the reported value when present and otherwise the sum of the
\* prompt and candidates counters of the record, which is zero only when both of those
\* are absent too.  Absent counters or absent metadata never make the function fail:
\* status, certainty and reasoning are those of the response.
C18_UsageDefaults ==
    ParsedBySeq =>
       LET tk == result.verdict.tokens IN
          /\ tk.prompt = Nullish(Reported("promptTokenCount"), JNum(0))
          /\ tk.candidates = Nullish(Reported("candidatesTokenCount"), JNum(0))
          /\ tk.total = IF Reported("totalTokenCount") # Undef
                        THEN Reported("totalTokenCount")
                        ELSE JNum(tk.prompt.n + tk.candidates.n)
          /\ response.text.doc = "object" =>
                /\ result.verdict.status = response.text.status
                /\ result.verdict.certainty = response.text.certainty
                /\ result.verdict.reasoning = response.text.reasoning

\* C18 witness: the service reported the prompt counter only; the frame-sequence
\* function returned prompt 11, candidates 0, total 11
C18_Witness ==
    /\ ParsedBySeq
    /\ kind = "frames"
    /\ Reported("promptTokenCount") = JNum(11)
    /\ Reported("candidatesTokenCount") = Undef
    /\ Reported("totalTokenCount") = Undef
    /\ result.verdict.tokens = Tokens(JNum(11), JNum(0), JNum(11))

\* C19: usage metadata never decides: had the same response text come with any other
\* usage metadata (absent, or other counters), the analysis function would have returned
\* the same status, certainty and reasoning and the gate the same decision; the decision
\* of the attempt is the gate's on that Verdict.
C19_UsageNeverDecides ==
    /\ (Answered /\ ~response.threw) =>
          \A u \in UsageValues :
             LET other == AnalysisReturn(kind, Responded(response.text, u)) IN
                /\ other.status = result.verdict.status
                /\ other.certainty = result.verdict.certainty
                /\ other.reasoning = result.verdict.reasoning
                /\ Decide(other, Threshold(kind)) = Decide(result.verdict, Threshold(kind))
    /\ (Answered /\ pc \in {"attemptEnd", "done"}) =>
          decision = Decide(result.verdict, Threshold(kind))

\* C19 witness: a video attempt passed on a response that came with no usage metadata
C19_Witness ==
    /\ Answered
    /\ kind = "video"
    /\ pc = "attemptEnd"
    /\ ~response.threw
    /\ response.usage = Undef
    /\ result.verdict.tokens = ZeroTokens
    /\ decision = "PASS"

----------------------------------------------------------------------------
(* Claims about the metrics runner *)

\* the run loop has ended (by its condition or by the abort)
LoopOver == rpc \in {"summary", "written"} \/ (rpc = "exited" /\ specArg)

\* C8: passRuns + failRuns never exceeds --runs, and once the loop has ended it equals
\* --runs unless the abort threshold was reached.
C8_RunCount ==
    /\ passRuns + failRuns <= runs
    /\ LoopOver => \/ passRuns + failRuns = runs
                   \/ abortOn > 0 /\ failRuns >= abortOn

\* C8 witness: the loop ended early on the abort threshold, runs left over
C8_Witness ==
    /\ rpc = "summary"
    /\ abortOn = 2
    /\ failRuns = 2
    /\ passRuns + failRuns < runs

\* C9 (as claimed): whenever the process has exited, its code is non-zero if and only
\* if failRuns > 0.
C9_ExitCodeIffFailures ==
    rpc = "exited" => (exitCode # 0 <=> failRuns > 0)

\* C9 (amended): a runner started with --spec exits non-zero if and only if failRuns > 0;
\* without --spec it exits 1 before any run, with failRuns = 0 and no report written.
C9_ExitCode ==
    rpc = "exited" =>
       IF specArg
       THEN /\ exitCode # 0 <=> failRuns > 0
            /\ exitCode \in {0, 1}
       ELSE /\ exitCode = 1
            /\ failRuns = 0 /\ passRuns = 0 /\ durationsMs = <<>>
            /\ reportWrites = 0

\* C9 witness: an exit with code 1 after a failing run, and passing runs beside it
C9_Witness ==
    /\ rpc = "exited"
    /\ specArg
    /\ exitCode = 1
    /\ failRuns = 1
    /\ passRuns = 2

C10_WitnessDisabled ==
    /\ abortOn = 0
    /\ failRuns = 3
    /\ rpc = "exited"

\* C11 (as claimed): the run count in the persisted report is the number of runs that
\* were executed, not the number requested; after an abort on the threshold the report
\* has failRuns equal to the threshold.
C11_ReportCountsExecutedRuns ==
    report.written =>
       /\ report.runs = Len(report.durationsMs)
       /\ aborted => report.failRuns = abortOn

\* C11 (amended): the persisted report's `runs` is the --runs argument, also after an
\* abort; the number of runs executed is the length of its durationsMs, which equals
\* passRuns + failRuns.  After an abort on threshold k the report has failRuns = k and as
\* many durations as the index of the run the loop broke at; without an abort it has
\* --runs durations.
C11_ReportRuns ==
    report.written =>
       /\ report.runs = runs
       /\ Len(report.durationsMs) = report.passRuns + report.failRuns
       /\ Len(report.failures) = report.failRuns
       /\ aborted => /\ report.failRuns = abortOn
                     /\ Len(report.durationsMs) = i
                     /\ i <= runs
       /\ ~aborted => Len(report.durationsMs) = runs

\* C11 witness: 3 runs requested, threshold 2, runs 1 and 2 failed: the report has two
\* durations, failRuns = 2 and runs = 3
C11_Witness ==
    /\ report.written
    /\ aborted
    /\ runs = 3 /\ abortOn = 2
    /\ Len(report.durationsMs) = 2
    /\ report.failRuns = 2
    /\ report.failures[1].run = 1 /\ report.failures[2].run = 2
    /\ report.runs = 3

\* a test of status 'failed' somewhere in these suites, at any depth
RECURSIVE HasFailedTest(_)
HasFailedTest(suites) ==
    IF suites = <<>> THEN FALSE
    ELSE \/ \E k \in 1..Len(Head(suites).tests) : Head(suites).tests[k].status = "failed"
         \/ HasFailedTest(Head(suites).suites)
         \/ HasFailedTest(Tail(suites))

\* the child's report lists its suites
ListsSuites(stdout) == stdout.doc = "report" /\ stdout.suites # Undef

\* C12 (as claimed): a run is counted PASS if and only if no test failed in that
\* execution, whatever the child's exit status and whether or not the report has a
\* failing-test count: a run whose report lists a failed test is counted FAIL, one whose
\* report lists its tests and none of them failed is counted PASS.
C12_PassIffNoTestFailed ==
    (proc.exited /\ ListsSuites(proc.stdout)) =>
       (success <=> ~HasFailedTest(proc.stdout.suites.a))

\* C13: at most one child process is in flight; the child of run i is spawned only when
\* the children of runs 1..i-1 have terminated and their results are recorded; every
\* child is started with a single worker; the results hold exactly one entry per
\* terminated child, made by the loop body of that run.
C13_OneRunAtATime ==
    /\ Len(spawned) <= 1
    /\ childRunning <=> Len(spawned) = 1
    /\ \A k \in 1..Len(spawned) : spawned[k].workers = 1 /\ spawned[k].run = i
    /\ childRunning => rpc = "child"
    /\ rpc \in {"loop", "child"} =>
          /\ Len(durationsMs) = i - 1
          /\ i > 1 => proc.exited /\ proc.run = i - 1
    /\ Len(durationsMs) = passRuns + failRuns
    /\ Len(failures) = failRuns
    /\ \A k \in 1..Len(failures) : failures[k].run <= Len(durationsMs)
    /\ proc.exited => proc.run = Len(durationsMs)

\* C13 witness: the child of run 2 is in flight, run 1 has terminated and is recorded
C13_Witness ==
    /\ childRunning
    /\ Len(spawned) = 1
    /\ spawned[1].run = 2
    /\ proc.exited /\ proc.run = 1
    /\ Len(durationsMs) = 1

\* the first lines of the error messages of the failed tests of these suites, at any
\* depth, in report order
RECURSIVE DeepReasons(_)
DeepReasons(suites) ==
    IF suites = <<>> THEN <<>>
    ELSE TestReasons(Head(suites).tests) \o DeepReasons(Head(suites).suites)
         \o DeepReasons(Tail(suites))

\* the digest the claim describes for what the child wrote
ClaimedDigest(stdout) ==
    IF ~ListsSuites(stdout) THEN Str("Failure")
    ELSE IF DeepReasons(stdout.suites.a) = <<>> THEN Str("Failure")
    ELSE JStr(Join(DeepReasons(stdout.suites.a)))

\* the latest run failed and its entry is the last of `failures`
LatestRunFailed == proc.exited /\ ~success /\ failures # <<>>

\* C14 (as claimed): the reasoning recorded for a failing run is the joined first lines
\* of the error messages of every failed test of the report, at any suite depth, and is
\* exactly "Failure" when the output is not JSON or has no suites.
C14_ReasoningDigest ==
    LatestRunFailed =>
       failures[Len(failures)].reasoning = ClaimedDigest(proc.stdout)

\* the results as the process holds them are the ones the report file has
ReportIsFinal ==
    /\ report.passRuns = passRuns
    /\ report.failRuns = failRuns
    /\ report.durationsMs = durationsMs
    /\ report.failures = failures
    /\ report.totalMs = Sum(durationsMs)

\* C15: a session (a runner started with --spec) writes the report exactly once, after the run loop
\* has ended (on its condition or on the abort threshold) and before it exits; nothing
\* changes the counters, durations or failures after the write, so the file holds the
\* final results; a session that was aborted has written its partial results by the time
\* it exits.  (Without --spec there is no session: no run and no report.)
C15_ReportWrittenOnce ==
    /\ reportWrites <= 1
    /\ report.written <=> reportWrites = 1
    /\ report.written =>
          /\ specArg
          /\ rpc \in {"written", "exited"}
          /\ ~childRunning
          /\ aborted \/ ~LoopContinues(i, runs)
          /\ ReportIsFinal
    /\ (rpc \in {"args", "loop", "child", "summary"}) => reportWrites = 0
    /\ (rpc = "exited" /\ specArg) => reportWrites = 1
    /\ (rpc = "exited" /\ aborted) =>
          report.written /\ report.failRuns = abortOn /\ Len(report.durationsMs) = i
    /\ ~specArg => reportWrites = 0 /\ durationsMs = <<>>

\* C15 witness: an aborted session has exited with its partial report on disk: one
\* passing and one failing run of three
C15_Witness ==
    /\ rpc = "exited"
    /\ aborted
    /\ reportWrites = 1
    /\ runs = 3
    /\ report.passRuns = 1 /\ report.failRuns = 1
    /\ Len(report.failures) = 1

\* C25: in every state of the run loop there is one duration per executed run, failing
\* runs included: Len(durationsMs) = passRuns + failRuns; there is one failure record per
\* failing run; the run indices of the failure records are strictly increasing and each
\* is between 1 and --runs.
C25_ResultsShape ==
    /\ Len(durationsMs) = passRuns + failRuns
    /\ Len(failures) = failRuns
    /\ \A k \in 1..Len(failures) :
          /\ failures[k].run >= 1
          /\ failures[k].run <= runs
          /\ k > 1 => failures[k - 1].run < failures[k].run
    /\ rpc = "child" => Len(durationsMs) = i - 1

\* C25 witness: in the loop, runs 1 and 3 failed and run 2 passed: three durations, two
\* failure records
C25_Witness ==
    /\ rpc = "loop"
    /\ passRuns = 1 /\ failRuns = 2
    /\ Len(durationsMs) = 3
    /\ failures[1].run = 1 /\ failures[2].run = 3

----------------------------------------------------------------------------
(* Claims about the context builder *)

\* the Expectation text of the contract has a word of the movement vocabulary
ExpectsMovement == \E k \in 1..Len(contract.expectation.s) : contract.expectation.s[k] \in MovementWords

\* C20 (as claimed): for every evidence kind the built prompt contains exactly one of
\* the two position directives: the movement directive if and only if the contract's
\* Expectation text has movement vocabulary, the stability directive otherwise; movement
\* words in Warnings or Notes alone do not select the movement directive.
C20_DirectiveFollowsExpectation ==
    ppc = "built" =>
       /\ Contains(prompt, MOVEMENT_NOTE) <=> ExpectsMovement
       /\ Contains(prompt, STABLE_NOTE) <=> ~ExpectsMovement

----------------------------------------------------------------------------
(* Claims about the App component *)

MoveKeys == {"w", "a", "s", "d"}

\* the step in which the user presses key k for the first time since its release
Presses(k) == k \notin pressed /\ pressed' = pressed \cup {k}

\* the step in which the user releases key k
Releases(k) == k \in pressed /\ pressed' = pressed \ {k}

\* the handlers are registered once and k is not marked held
Heard(k) == keydownListeners = 1 /\ keyupListeners = 1 /\ k \notin keyDownMap

Fires(k) == fired'[k] = fired[k] + 1

\* C23: 'c' recenters without changing the viewing direction or distance: after it the
\* orbit target equals the box position, the vector from the target to the camera is the
\* same as before (camera and target were translated by the same delta) and the box is
\* unchanged; a 'c' that finds the target on the box changes nothing.
C23_CenterKeepsOrientation ==
    [][Fires("c") =>
          /\ target' = box
          /\ VSub(camera', target') = VSub(camera, target)
          /\ VSub(camera', camera) = VSub(target', target)
          /\ box' = box /\ yaw' = yaw
          /\ target = box => camera' = camera /\ target' = target
      ]_vars

\* C23 witness: the box was moved and 'c' ran twice: the target is on the moved box and
\* the camera keeps the offset it was built with
C23_Witness ==
    /\ fired["d"] = 1
    /\ fired["c"] = 2
    /\ box = Vec(BOX_START.x + STEP, BOX_START.y, BOX_START.z)
    /\ target = box
    /\ VSub(camera, target) = VSub(CAMERA_START, TARGET_START)

\* C24: each press of 'e' rotates MainBox to the right, that is, decreases its yaw, and
\* leaves its position unchanged, so that after a series of 'e' presses the orientation
\* differs from the one at the start.
C24_ERotatesRight ==
    [][Presses("e") /\ Heard("e") => yaw' < yaw /\ box' = box]_vars

\* C26: key-repeat suppression: a keydown for key k runs its action only if k is not
\* marked held, and marks it; a press of k that the handler hears while k is not marked
\* runs the action, whatever other keys are held; keydowns for k with no keyup in
\* between run the action once, so that while the handlers are registered the action
\* ran once per press; a keydown marks, and a keyup clears, the mark of its own key only.
C26_RepeatSuppressed ==
    [][\A k \in Keys :
          /\ Fires(k) => k \notin keyDownMap /\ keyDownMap' = keyDownMap \cup {k}
          /\ Presses(k) /\ Heard(k) => Fires(k)
          /\ keydownListeners' = 1 => fired'[k] = presses'[k]
          /\ Releases(k) /\ keyupListeners = 1 => keyDownMap' = keyDownMap \ {k}
      ]_vars

\* C26 witness: while a is held, d was pressed, released and pressed again: d's action ran
\* twice, a's once, and both are marked held
C26_Witness ==
    /\ keyDownMap = {"a", "d"}
    /\ pressed = {"a", "d"}
    /\ fired["a"] = 1
    /\ fired["d"] = 2
    /\ box = Vec(BOX_START.x + STEP, BOX_START.y, BOX_START.z)

\* C27: in an animation frame the camera jitter is applied if and only if the randomness
\* state is on at that frame; while it is off a frame leaves the camera position
\* unchanged and jitters no noise point.
C27_JitterFollowsSwitch ==
    [][Frame => IF randomness THEN camera' # camera
                ELSE camera' = camera /\ clouds' = clouds]_vars

\* the noise point clouds that are in the scene
CloudsInScene == {c \in 1..Len(clouds) : clouds[c].inScene}

\* C28: after any sequence of mounts, randomness toggles and unmounts the scene contains
\* at most one noise point cloud; it contains exactly one if and only if the component is
\* mounted with randomness on; every cloud ever created that is not the current one has
\* been disposed and removed from the scene.
C28_OneCloudIffOn ==
    /\ Cardinality(CloudsInScene) <= 1
    /\ Cardinality(CloudsInScene) = 1 <=> (effect = "up" /\ randomness)
    /\ \A c \in 1..Len(clouds) :
          c # noiseCtx => clouds[c].disposed /\ ~clouds[c].inScene

\* C29: whenever the setup effect ran more recently than the cleanup, the scene is built
\* (by that setup), the canvas is attached and exactly one keydown and one keyup
\* listener are registered; after a cleanup none is registered.
C29_SetupMeansLive ==
    /\ effect = "up" =>
          /\ sceneRef /\ builds = setups
          /\ canvasAttached
          /\ keydownListeners = 1 /\ keyupListeners = 1
    /\ effect = "down" => keydownListeners = 0 /\ keyupListeners = 0

\* the camera is straight above the orbit target, up to the jitter of the frames so far
TopDownView ==
    LET o == VSub(camera, target)
        slack == 10 * events
    IN  /\ o.y >= TOP_HEIGHT - slack
        /\ o.x >= -slack /\ o.x <= slack
        /\ o.z >= -slack /\ o.z <= slack + TOP_Z

====
